---- MODULE Spec2Model ----
(***************************************************************************)
(* A model of @xstate/test's TestModel (packages/xstate-test/src/index.ts): *)
(* event sampling, path planning, plan compilation, sequential execution   *)
(* of a path's and a plan's test, and coverage accounting; and of the      *)
(* inspector's deferred postMessage queue (inspect).                       *)
(*                                                                         *)
(* The machine under test is abstract: its serialized states are 1..       *)
(* NumStates (state 1 is the initial state), state 1 is the atomic node 1, *)
(* and every state s > 1 is the child node s of one compound node 0, so    *)
(* that a state can carry the metadata of two state nodes and a state      *)
(* value can match several states.                                         *)
(***************************************************************************)
EXTENDS Integers, Sequences, FiniteSets, TLC

VARIABLES
    delta,      \* the machine's transition function: state -> event type -> state
    nodeMeta,   \* each state node's test metadata: none | notest | test | skip
    events,     \* this.options.events: event type -> its configuration
    coverage,   \* this.coverage.stateNodes: a Map from state-node id to count
    invoked,    \* history: how often each node's assertion procedure was invoked
    plans,      \* the plans last returned to the caller by a plan query
    query,      \* the query or coverage call made last, since the last test began
    run,        \* each caller flow's position in path.test / plan.test
    runs,       \* how many tests the callers have started
    twin,       \* the caller's other TestModel instance, once withEvents made one
    inspector   \* the closure of one inspect() call and its target window

vars == <<delta, nodeMeta, events, coverage, invoked, plans, query, run, runs,
          twin, inspector>>

\* ------------------------------------------------------------------ bounds

NumStates == 3
MaxRuns == 2
MaxEvents == 2
MaxCases == 2
MaxPosted == 5
MaxInspecting == 2

\* ----------------------------------------------------------- the machine

States == 1..NumStates
NodeIds == 0..NumStates
EventTypeList == <<"E", "F">>
EventTypes == {EventTypeList[k] : k \in 1..Len(EventTypeList)}

initialState == 1

\* state.configuration: the active state nodes, parents first.
Configuration(s) == IF s = 1 THEN <<1>> ELSE <<0, s>>

\* Object.keys(state.meta): the active nodes that declare metadata.
MetaKeys(s) == SelectSeq(Configuration(s), LAMBDA id : nodeMeta[id] # "none")

\* state.matches(stateValue): a state value names a node; it matches the
\* states in which that node is active.
Matches(s, stateValue) ==
    \E k \in 1..Len(Configuration(s)) : Configuration(s)[k] = stateValue

\* machine.transition(state, event)
Transition(s, event) == delta[s][event.type]

\* getStateNodes(machine): every state node the machine declares.
getStateNodes == NodeIds

\* serializeState(state): the key of a state in a StatePathsMap.
serializeState(s) == <<"state", s>>

\* ------------------------------------------------------- event sampling

\* A case payload is an object with a data field and perhaps a type field
\* of its own.  A merge in which the key's type is written last.
SampleOfCaseKeepingKey(key, sample) ==
    [type |-> key, data |-> sample.data]

\* { type: key, ...sample }: the payload's fields are written after type.
SampleOfCase(key, sample) ==
    LET merged == sample @@ [type |-> key]
    IN [type |-> merged["type"], data |-> merged["data"]]

RECURSIVE CaseSamples(_, _, _)
CaseSamples(key, cases, k) ==
    IF k > Len(cases) THEN <<>>
    ELSE <<SampleOfCase(key, cases[k])>> \o CaseSamples(key, cases, k + 1)

\* The samples of one key of the event configuration.
KeySamples(eventsOptions, key) ==
    LET eventConfig == eventsOptions[key] IN
    IF eventConfig.kind = "function" THEN <<[type |-> key, data |-> 0]>>
    ELSE IF eventConfig.hasCases
         THEN CaseSamples(key, eventConfig.cases, 1)
         ELSE <<[type |-> key, data |-> 0]>>

\* Object.keys(eventsOptions): the configured keys, in order.
ConfigKeys(eventsOptions) ==
    SelectSeq(EventTypeList, LAMBDA t : eventsOptions[t].kind # "missing")

RECURSIVE SamplesOfKeys(_, _, _)
SamplesOfKeys(eventsOptions, keys, k) ==
    IF k > Len(keys) THEN <<>>
    ELSE KeySamples(eventsOptions, keys[k])
             \o SamplesOfKeys(eventsOptions, keys, k + 1)

getEventSamples(eventsOptions) ==
    SamplesOfKeys(eventsOptions, ConfigKeys(eventsOptions), 1)

\* ------------------------------------------------- the graph search

\* The path of no steps, which ends in the initial state.
InitialPath == [state |-> initialState, steps |-> << >>, weight |-> 0]

\* Whether a list of paths holds one that ends in state s.
Found(found, s) == \E m \in 1..Len(found) : found[m].state = s

\* Follow every sampled event out of the path v, keeping the first path
\* found to each state.
RECURSIVE Relax(_, _, _, _)
Relax(samples, found, v, j) ==
    IF j > Len(samples) THEN found
    ELSE LET ns == Transition(v.state, samples[j])
             p  == [state  |-> ns,
                    steps  |-> Append(v.steps,
                                      [state |-> v.state, event |-> samples[j]]),
                    weight |-> v.weight + 1]
         IN Relax(samples, IF Found(found, ns) THEN found ELSE Append(found, p),
                  v, j + 1)

RECURSIVE Search(_, _, _)
Search(samples, found, k) ==
    IF k > Len(found) THEN found
    ELSE Search(samples, Relax(samples, found, found[k], 1), k + 1)

\* getShortestPaths(machine, events, options): per reachable state, one
\* path of the fewest steps.  A StatePathsMap is kept as the list of its
\* entries in key order.
getShortestPaths(samples) ==
    LET found == Search(samples, << InitialPath >>, 1)
    IN [k \in 1..Len(found) |->
           [key   |-> serializeState(found[k].state),
            state |-> found[k].state,
            paths |-> <<found[k]>>]]

\* Whether a path visits state s before its last step.
Visits(steps, s) == \E m \in 1..Len(steps) : steps[m].state = s

\* Every path without a repeated state that extends path v, v included.
RECURSIVE SimpleFrom(_, _)
RECURSIVE SimpleVia(_, _, _)
SimpleVia(samples, v, j) ==
    IF j > Len(samples) THEN <<>>
    ELSE LET ns == Transition(v.state, samples[j])
             p  == [state  |-> ns,
                    steps  |-> Append(v.steps,
                                      [state |-> v.state, event |-> samples[j]]),
                    weight |-> v.weight + 1]
         IN (IF ns = v.state \/ Visits(v.steps, ns) THEN <<>>
             ELSE SimpleFrom(samples, p))
            \o SimpleVia(samples, v, j + 1)
SimpleFrom(samples, v) == <<v>> \o SimpleVia(samples, v, 1)

\* getSimplePaths(machine, events, options): per reachable state, every
\* path to it that repeats no state.
getSimplePaths(samples) ==
    LET all   == SimpleFrom(samples, InitialPath)
        short == getShortestPaths(samples)
    IN [k \in 1..Len(short) |->
           [key   |-> short[k].key,
            state |-> short[k].state,
            paths |-> SelectSeq(all, LAMBDA p : p.state = short[k].state)]]

\* getPathFromEvents(machine, events): the path that replays a literal
\* event sequence from the initial state.
RECURSIVE Replay(_, _, _)
Replay(v, evs, k) ==
    IF k > Len(evs) THEN v
    ELSE Replay([state  |-> Transition(v.state, evs[k]),
                 steps  |-> Append(v.steps, [state |-> v.state, event |-> evs[k]]),
                 weight |-> v.weight + 1],
                evs, k + 1)

getPathFromEvents(evs) ==
    Replay(InitialPath, evs, 1)

\* ------------------------------------------------------- plan queries

\* A compiler that builds every plan from the first entry.
getTestPlansOfFirstKey(statePathsMap) ==
    [k \in 1..Len(statePathsMap) |->
        [state |-> statePathsMap[1].state,
         paths |-> statePathsMap[1].paths]]

\* getTestPlans(statePathsMap): one plan per key, in key order, each with
\* the entry's state and its paths.  A step's test and exec and a path's
\* and a plan's test are the actions further down.
getTestPlans(statePathsMap) ==
    [k \in 1..Len(statePathsMap) |->
        [state |-> statePathsMap[k].state,
         paths |-> statePathsMap[k].paths]]

getShortestPathPlans(eventsOptions) ==
    getTestPlans(getShortestPaths(getEventSamples(eventsOptions)))

getSimplePathPlans(eventsOptions) ==
    getTestPlans(getSimplePaths(getEventSamples(eventsOptions)))

\* A target is a state value (a node id) or a predicate over states (the
\* set of states it holds of).
ValueTarget(id) == [kind |-> "value", value |-> id, holds |-> {}]
PredicateTarget(P) == [kind |-> "function", value |-> 0, holds |-> P]
NoTarget == [kind |-> "none", value |-> 0, holds |-> {}]

TargetMatches(stateValue, s) ==
    IF stateValue.kind = "function" THEN s \in stateValue.holds
    ELSE Matches(s, stateValue.value)

filterPathsTo(stateValue, testPlans) ==
    SelectSeq(testPlans, LAMBDA plan : TargetMatches(stateValue, plan.state))

\* A weight, or Infinity.
Infinity == [inf |-> TRUE, n |-> 0]
Weight(n) == [inf |-> FALSE, n |-> n]
Less(a, b) == ~a.inf /\ (b.inf \/ a.n < b.n)

\* The loop with <= for <: a plan of the same weight replaces the plans kept.
RECURSIVE ShortestLoopKeepingLast(_, _, _, _)
ShortestLoopKeepingLast(filtered, k, minWeight, shortestPlans) ==
    IF k > Len(filtered) THEN shortestPlans
    ELSE LET plan       == filtered[k]
             currWeight == Weight(plan.paths[1].weight)
         IN IF Less(currWeight, minWeight) \/ currWeight = minWeight
            THEN ShortestLoopKeepingLast(filtered, k + 1, currWeight, <<plan>>)
            ELSE ShortestLoopKeepingLast(filtered, k + 1, minWeight, shortestPlans)

\* The loop of getShortestPathPlansTo over the filtered plans.
RECURSIVE ShortestLoop(_, _, _, _)
ShortestLoop(filtered, k, minWeight, shortestPlans) ==
    IF k > Len(filtered) THEN shortestPlans
    ELSE LET plan       == filtered[k]
             currWeight == Weight(plan.paths[1].weight)
         IN IF Less(currWeight, minWeight)
            THEN ShortestLoop(filtered, k + 1, currWeight, <<plan>>)
            ELSE IF currWeight = minWeight
                 THEN ShortestLoop(filtered, k + 1, minWeight,
                                   Append(shortestPlans, plan))
                 ELSE ShortestLoop(filtered, k + 1, minWeight, shortestPlans)

getShortestPathPlansTo(eventsOptions, stateValue) ==
    ShortestLoop(filterPathsTo(stateValue, getShortestPathPlans(eventsOptions)),
                 1, Infinity, <<>>)

getSimplePathPlansTo(eventsOptions, stateValue) ==
    filterPathsTo(stateValue, getSimplePathPlans(eventsOptions))

\* The check of the target made on the state the replay starts in.
PlanFromEventsThrowsAtStart(evs, target) ==
    ~Matches(initialState, target)

\* getPlanFromEvents(events, {target}): the plan of the replayed path, or
\* a throw when the state it ends in does not match the target.
PlanFromEventsThrows(evs, target) ==
    ~Matches(getPathFromEvents(evs).state, target)

getPlanFromEvents(evs) ==
    LET path == getPathFromEvents(evs)
    IN getTestPlans(<<[key |-> <<"value", path.state>>,
                       state |-> path.state,
                       paths |-> <<path>>]>>)[1]

\* -------------------------------------------------- coverage counters

\* this.coverage.stateNodes.get(id) || 0
CoverageGet(cov, id) == IF id \in DOMAIN cov THEN cov[id] ELSE 0

\* A set that starts a new map.
CoverageSetAlone(cov, id, value) == [k \in {id} |-> value]

\* this.coverage.stateNodes.set(id, value)
CoverageSet(cov, id, value) ==
    [k \in (DOMAIN cov) \cup {id} |-> IF k = id THEN value ELSE cov[k]]

\* An update that forgets the count so far.
CountAssertionFromZero(cov, id) == CoverageSet(cov, id, 1)

\* The counter update of testState for one state-node id.
CountAssertion(cov, id) == CoverageSet(cov, id, CoverageGet(cov, id) + 1)

\* The test of testState without its skip clause.
IsTestedIgnoringSkip(meta) == meta \in {"test", "skip"}

\* typeof stateNodeMeta.test === 'function' && !stateNodeMeta.skip
IsTested(meta) == meta = "test"

\* The first key of state.meta at position from or later whose assertion
\* testState runs; 0 when there is none.
NextTestable(s, from) ==
    LET keys == MetaKeys(s)
        cand == {p \in from..Len(keys) : IsTested(nodeMeta[keys[p]])}
    IN IF cand = {} THEN 0 ELSE CHOOSE p \in cand : \A q \in cand : p <= q

\* ------------------------------------------------- values that are thrown

NoError == [type |-> "null", by |-> "", at |-> 0]
ErrorObject(by, at) == [type |-> "Error", by |-> by, at |-> at]
UndefinedValue == [type |-> "undefined", by |-> "", at |-> 0]
TypeErrorObject == [type |-> "TypeError", by |-> "catch", at |-> 0]

\* What a caller-supplied assertion or executor may reject with: an Error
\* of its own, or a value that is no object.
Rejections(by, at) == {ErrorObject(by, at), UndefinedValue}

\* The catch block of path.test: err.message += trace; throw err.  A value
\* that is no object has no message to read, so a TypeError is thrown.
Rethrown(err) ==
    IF err.type \in {"Error", "TypeError"} THEN err ELSE TypeErrorObject

\* ----------------------------------------------- the event executor

\* A lookup that takes a record itself for its executor.
getEventExecutorOfRecord(eventsOptions, event) ==
    IF eventsOptions[event.type].kind = "missing" THEN "undefined" ELSE "function"

\* getEventExecutor(event): "function" when an executor is configured for
\* the event's type, "undefined" otherwise.
getEventExecutor(eventsOptions, event) ==
    LET testEvent == eventsOptions[event.type] IN
    IF testEvent.kind = "missing" THEN "undefined"
    ELSE IF testEvent.kind = "function" THEN "function"
    ELSE IF testEvent.exec THEN "function" ELSE "undefined"

\* ------------------------------------------------- a caller's flow

Callers == {"c1", "c2"}

NoPlan == [state |-> 0, paths |-> << >>]
\* A result that starts with its terminal error field set.
ResultWithTerminalError ==
    [steps |-> << >>, stateError |-> [type |-> "Error", by |-> "test", at |-> 0]]

EmptyResult == [steps |-> << >>, stateError |-> NoError]

\* The counters as a total function, for comparing.
Counts(cov) == [id \in NodeIds |-> CoverageGet(cov, id)]

IdleRun ==
    [pc |-> "idle", inner |-> "resolved", innerErr |-> NoError, pos |-> 0,
     plan |-> NoPlan, pathIdx |-> 0, result |-> EmptyResult,
     outcome |-> "none", thrown |-> NoError,
     viaPlan |-> FALSE, planOutcome |-> "none", planThrown |-> NoError,
     calls |-> << >>, executed |-> << >>, planLog |-> << >>,
     countsAtStart |-> [id \in NodeIds |-> 0], trace |-> << >>]

Path(r) == r.plan.paths[r.pathIdx]
Steps(r) == Path(r).steps
StepNo(r) == Len(r.result.steps)

Call(fn, k, ev) == [fn |-> fn, step |-> k, ev |-> ev]

\* The call path.test is suspended in.
CurrentCall(r) ==
    IF r.pc = "stepTest" THEN Call("test", StepNo(r), "start")
    ELSE IF r.pc = "stepExec" THEN Call("exec", StepNo(r), "start")
    ELSE Call("final", 0, "start")

\* The state whose assertions path.test is waiting for.
AssertedState(r) ==
    IF r.pc = "stepTest" THEN Steps(r)[StepNo(r)].state ELSE r.plan.state

\* A testState that counts from the counters as they were when the path's
\* test began.
testStateFromSnapshot(m, s, from, call) ==
    LET p == NextTestable(s, from) IN
    IF p = 0
    THEN [m EXCEPT !.r.inner = "resolved", !.r.pos = 0,
                   !.r.calls = Append(@, [call EXCEPT !.ev = "end"])]
    ELSE [m EXCEPT !.cov = CoverageSet(@, MetaKeys(s)[p],
                                       m.r.countsAtStart[MetaKeys(s)[p]] + 1),
                   !.inv[MetaKeys(s)[p]] = @ + 1,
                   !.r.inner = "pending", !.r.pos = p]

\* testState's loop over Object.keys(state.meta) from position from: count
\* and invoke the next assertion and wait for it, or finish.  m holds the
\* caller's flow r, the coverage map cov and the invocation history inv.
testState(m, s, from, call) ==
    LET p == NextTestable(s, from) IN
    IF p = 0
    THEN [m EXCEPT !.r.inner = "resolved", !.r.pos = 0,
                   !.r.calls = Append(@, [call EXCEPT !.ev = "end"])]
    ELSE [m EXCEPT !.cov = CountAssertion(@, MetaKeys(s)[p]),
                   !.inv[MetaKeys(s)[p]] = @ + 1,
                   !.r.inner = "pending", !.r.pos = p]

\* One iteration of the for loop of path.test up to await step.test.
EnterStep(m, k) ==
    LET r1 == [m.r EXCEPT
                 !.pc = "stepTest",
                 !.result.steps = Append(@, [step |-> Steps(m.r)[k],
                                             stateError |-> NoError,
                                             eventError |-> NoError]),
                 !.calls = Append(@, Call("test", k, "start"))]
    IN testState([m EXCEPT !.r = r1], Steps(m.r)[k].state, 1,
                 Call("test", k, "start"))

\* After the loop: await this.testState(testPlan.state, testContext).
EnterFinal(m) ==
    LET r1 == [m.r EXCEPT !.pc = "finalTest",
                          !.calls = Append(@, Call("final", 0, "start"))]
    IN testState([m EXCEPT !.r = r1], m.r.plan.state, 1,
                 Call("final", 0, "start"))

\* A loop that stops one step early.
HasNextStepButLast(r) == StepNo(r) + 1 < Len(Steps(r))

\* for (const step of steps): whether a step is left.
HasNextStep(r) == StepNo(r) < Len(Steps(r))

LoopHead(m) == IF HasNextStep(m.r) THEN EnterStep(m, StepNo(m.r) + 1)
               ELSE EnterFinal(m)

\* path.test(testContext) up to its first await.
StartPath(m, plan, j) ==
    LoopHead([m EXCEPT !.r.pc = "stepTest", !.r.plan = plan, !.r.pathIdx = j,
                       !.r.result = EmptyResult, !.r.outcome = "none",
                       !.r.thrown = NoError, !.r.innerErr = NoError,
                       !.r.trace = << >>,
                       !.r.calls = << >>, !.r.executed = << >>,
                       !.r.planLog = Append(@, [path |-> j, ev |-> "start"]),
                       !.r.countsAtStart = Counts(m.cov)])

\* An executeEvent that counts the state node of the step it executes.
executeEventCounting(m) ==
    [m EXCEPT !.r.pc = "stepExec", !.r.inner = "pending",
              !.r.calls = Append(@, Call("exec", StepNo(m.r), "start")),
              !.r.executed = Append(@, StepNo(m.r)),
              !.cov = CountAssertion(@, Steps(m.r)[StepNo(m.r)].state)]

\* step.exec(testContext), that is executeEvent, up to its await.
executeEvent(m) ==
    LET k  == StepNo(m.r)
        r1 == [m.r EXCEPT !.pc = "stepExec",
                          !.calls = Append(@, Call("exec", k, "start"))]
    IN IF getEventExecutor(events, Steps(m.r)[k].event) = "function"
       THEN [m EXCEPT !.r = [r1 EXCEPT !.inner = "pending",
                                       !.executed = Append(@, k)]]
       ELSE [m EXCEPT !.r = [r1 EXCEPT !.inner = "resolved",
                                       !.calls = Append(@, Call("exec", k, "end"))]]

\* The catch block's trace: for each recorded step a State line and an Event
\* line, then the line of the path's target state.  A line is gray once a
\* failure has been met, red where an error field is set, green otherwise.
Truthy(err) == err.type \in {"Error", "TypeError"}

NoEvent == [type |-> "", data |-> 0]

\* A colouring that looks at the line's own error field only.
ColourOfOwnError(hasFailed, error, red, green) ==
    IF Truthy(error) THEN red ELSE green

Colour(hasFailed, error, red, green) ==
    IF hasFailed THEN "gray" ELSE IF Truthy(error) THEN red ELSE green

RECURSIVE TraceSteps(_, _, _, _, _)
TraceSteps(results, steps, k, hasFailed, lines) ==
    IF k > Len(results) THEN [lines |-> lines, hasFailed |-> hasFailed]
    ELSE LET stateResult ==
                 [line |-> "State", state |-> steps[k].state, event |-> NoEvent,
                  colour |-> Colour(hasFailed, results[k].stateError,
                                    "redBright", "greenBright")]
             failed1 == hasFailed \/ Truthy(results[k].stateError)
             eventResult ==
                 [line |-> "Event", state |-> steps[k].state,
                  event |-> steps[k].event,
                  colour |-> Colour(failed1, results[k].eventError,
                                    "red", "green")]
             failed2 == failed1 \/ Truthy(results[k].eventError)
         IN TraceSteps(results, steps, k + 1, failed2,
                       lines \o <<stateResult, eventResult>>)

PathTrace(r) ==
    LET mapped == TraceSteps(r.result.steps, Steps(r), 1, FALSE, << >>)
    IN Append(mapped.lines,
              [line |-> "State", state |-> Path(r).state, event |-> NoEvent,
               colour |-> Colour(mapped.hasFailed, r.result.stateError,
                                 "red", "green")])

\* path.test settles.  The trace is appended to the message of the error
\* that is rethrown; the TypeError raised for a value with no message
\* carries none.
PathRejects(m, err) ==
    [m EXCEPT !.r.pc = "done", !.r.outcome = "rejected",
              !.r.thrown = Rethrown(err),
              !.r.trace = IF Rethrown(err) = err THEN PathTrace(m.r) ELSE << >>,
              !.r.planLog = Append(@, [path |-> m.r.pathIdx, ev |-> "rejected"])]

PathReturns(m) ==
    [m EXCEPT !.r.pc = "done", !.r.outcome = "resolved",
              !.r.planLog = Append(@, [path |-> m.r.pathIdx, ev |-> "resolved"])]

\* A plan.test that catches what a path's test throws.
PlanAfterPathSwallowing(r) ==
    IF r.pathIdx < Len(r.plan.paths) THEN "next" ELSE "resolve"

\* for (const path of paths) await path.test(testContext): what plan.test
\* does when the path it awaits has settled.
PlanAfterPath(r) ==
    IF r.outcome = "rejected" THEN "reject"
    ELSE IF r.pathIdx < Len(r.plan.paths) THEN "next" ELSE "resolve"

InFlight(r) ==
    \/ r.pc \in {"stepTest", "stepExec", "finalTest"}
    \/ r.pc = "done" /\ r.viaPlan /\ r.planOutcome = "pending"

Machine(c) == [r |-> run[c], cov |-> coverage, inv |-> invoked]

Becomes(c, m) ==
    /\ run' = [run EXCEPT ![c] = m.r]
    /\ coverage' = m.cov
    /\ invoked' = m.inv

\* ------------------------------------------------- coverage reports

\* Coverage options: no options, or a filter keeping a set of state nodes.
NoOptions == [filter |-> FALSE, keep |-> {}]
FilterOptions(keep) == [filter |-> TRUE, keep |-> keep]

\* A report that leaves the instance's counters out.
getCoverageOfZeros(cov, options) ==
    [id \in (IF options.filter THEN getStateNodes \cap options.keep
             ELSE getStateNodes) |-> 0]

\* getCoverage(options).stateNodes: zero for every (filtered) declared
\* node, then every key of the instance's map laid over it.
getCoverage(cov, options) ==
    LET filteredStateNodes ==
            IF options.filter THEN getStateNodes \cap options.keep
            ELSE getStateNodes
    IN [id \in filteredStateNodes \cup DOMAIN cov |->
           IF id \in DOMAIN cov THEN cov[id] ELSE 0]

\* testCoverage(options): the ids it throws for; it throws when there are any.
missingStateNodes(cov, options) ==
    {id \in DOMAIN getCoverage(cov, options) : getCoverage(cov, options)[id] = 0}

\* ------------------------------------------------------- initial states

Missing == [kind |-> "missing", exec |-> FALSE, hasCases |-> FALSE, cases |-> << >>]
Function == [kind |-> "function", exec |-> TRUE, hasCases |-> FALSE, cases |-> << >>]
Record(exec) == [kind |-> "record", exec |-> exec, hasCases |-> FALSE, cases |-> << >>]
RecordCases(exec, cases) ==
    [kind |-> "record", exec |-> exec, hasCases |-> TRUE, cases |-> cases]

NoQuery == [op |-> "none", target |-> NoTarget, evs |-> << >>, threw |-> FALSE,
            missing |-> {}, report |-> [id \in {} |-> 0], options |-> NoOptions,
            samples |-> << >>]

\* The machines whose plans are executed: E steps round the states, F
\* leads from the initial state to the last one and is handled nowhere
\* else; or a toggle between the first two states.
Round == [s \in States |-> [t \in EventTypes |->
            IF t = "E" THEN (s % NumStates) + 1
            ELSE IF s = 1 THEN NumStates ELSE s]]
Toggle == [s \in States |-> [t \in EventTypes |->
            IF t = "E" THEN (IF s = 1 THEN 2 ELSE 1) ELSE s]]
ExecDeltas == {Round, Toggle}

\* The models whose plans are executed: the nodes' metadata with the event
\* configuration.
AllTested == [id \in NodeIds |-> "test"]
SomeSkipped == [id \in NodeIds |-> IF id = 1 THEN "notest"
                                   ELSE IF id = NumStates THEN "skip" ELSE "test"]
FewTested == [id \in NodeIds |-> IF id = 0 THEN "skip"
                                 ELSE IF id = 2 THEN "test" ELSE "none"]

ExecModels ==
    { [meta   |-> AllTested,
       events |-> [t \in EventTypes |-> IF t = "E" THEN Record(TRUE) ELSE Missing]],
      [meta   |-> AllTested,
       events |-> [t \in EventTypes |-> IF t = "E" THEN Function ELSE Record(FALSE)]],
      [meta   |-> SomeSkipped,
       events |-> [t \in EventTypes |-> IF t = "E" THEN Function ELSE Record(FALSE)]],
      [meta   |-> SomeSkipped,
       events |-> [t \in EventTypes |-> IF t = "E" THEN Record(TRUE) ELSE Missing]],
      [meta   |-> FewTested,
       events |-> [t \in EventTypes |-> IF t = "E" THEN Record(TRUE) ELSE Function]] }

\* new TestModel(machine, options): the event configuration given, and the
\* coverage field initialised with a Map of its own.
NewTestModelWithCoverage(eventMap) ==
    [events |-> eventMap, coverage |-> coverage]

NewTestModel(eventMap) ==
    [events |-> eventMap, coverage |-> [id \in {} |-> 0]]

\* withEvents(eventMap)
withEvents(eventMap) == NewTestModel(eventMap)

\* The instance the caller is not working with, and the plans obtained from
\* it (their step.test and step.exec are closures over that instance).
NoTwin ==
    [made |-> FALSE, original |-> FALSE, arg |-> [t \in EventTypes |-> Missing],
     events |-> [t \in EventTypes |-> Missing],
     coverage |-> [id \in {} |-> 0], invoked |-> [id \in NodeIds |-> 0],
     plans |-> << >>]

\* The closure of inspect() after the call, with a target window that has
\* received nothing.
NoInspector ==
    [isDeferred |-> TRUE, deferredEvents |-> << >>, timers |-> 0,
     inspecting |-> 0, posted |-> 0, postedBefore |-> 0, received |-> << >>]

InitModel ==
    /\ twin = NoTwin
    /\ inspector = NoInspector
    /\ coverage = [id \in {} |-> 0]
    /\ invoked = [id \in NodeIds |-> 0]
    /\ plans = << >>
    /\ query = NoQuery
    /\ run = [c \in Callers |-> IdleRun]
    /\ runs = 0

Init ==
    /\ delta \in ExecDeltas
    /\ \E model \in ExecModels : nodeMeta = model.meta /\ events = model.events
    /\ InitModel

\* ------------------------------------------------------------- queries

Quiescent == \A c \in Callers : run[c].pc = "idle"

Predicates == { {}, {NumStates}, States \ {initialState} }
Targets == {ValueTarget(id) : id \in NodeIds}
               \cup {PredicateTarget(P) : P \in Predicates}

EventObjects == {[type |-> t, data |-> 0] : t \in EventTypes}
EventSeqs == UNION {[1..n -> EventObjects] : n \in 0..MaxEvents}

\* The literal event sequences replayed before a test is run: some E's and
\* then an F, with a target that the last state matches and one it does not.
ExecEventSeqs ==
    {evs \in EventSeqs : /\ Len(evs) >= 1
                         /\ \A k \in 1..Len(evs) :
                               evs[k].type = (IF k = Len(evs) THEN "F" ELSE "E")}
ExecIds == {0, 1}
ExecTargets == {ValueTarget(0), PredicateTarget({NumStates})}

Returned(op, target, evs, result) ==
    /\ plans' = result
    /\ query' = [NoQuery EXCEPT !.op = op, !.target = target, !.evs = evs]
    /\ UNCHANGED <<twin, inspector, delta, nodeMeta, events, coverage, invoked, run, runs>>

GetShortestPathPlans ==
    /\ Quiescent
    /\ Returned("getShortestPathPlans", NoTarget, << >>,
                getShortestPathPlans(events))

GetShortestPathPlansTo(targets) ==
    /\ Quiescent
    /\ \E t \in targets :
          Returned("getShortestPathPlansTo", t, << >>,
                   getShortestPathPlansTo(events, t))

GetSimplePathPlans ==
    /\ Quiescent
    /\ Returned("getSimplePathPlans", NoTarget, << >>,
                getSimplePathPlans(events))

GetSimplePathPlansTo(targets) ==
    /\ Quiescent
    /\ \E t \in targets :
          Returned("getSimplePathPlansTo", t, << >>,
                   getSimplePathPlansTo(events, t))

GetPlanFromEvents(seqs, ids) ==
    /\ Quiescent
    /\ \E evs \in seqs, id \in ids :
          IF PlanFromEventsThrows(evs, id)
          THEN /\ query' = [NoQuery EXCEPT !.op = "getPlanFromEvents",
                                           !.target = ValueTarget(id),
                                           !.evs = evs, !.threw = TRUE]
               /\ UNCHANGED <<twin, inspector, delta, nodeMeta, events, coverage, invoked,
                              plans, run, runs>>
          ELSE Returned("getPlanFromEvents", ValueTarget(id), evs,
                        <<getPlanFromEvents(evs)>>)

\* getCoverage() and getCoverage({filter}), the filter keeping the initial
\* state's node, or the nodes of the other states.
CoverageOptions ==
    {NoOptions, FilterOptions({initialState}), FilterOptions(States \ {initialState})}

GetCoverage ==
    /\ Quiescent
    /\ \E options \in CoverageOptions :
          query' = [NoQuery EXCEPT !.op = "getCoverage", !.options = options,
                                  !.report = getCoverage(coverage, options)]
    /\ UNCHANGED <<twin, inspector, delta, nodeMeta, events, coverage, invoked, plans, run, runs>>

TestCoverage ==
    /\ Quiescent
    /\ query' = [NoQuery EXCEPT
                    !.op = "testCoverage",
                    !.missing = missingStateNodes(coverage, NoOptions),
                    !.threw = missingStateNodes(coverage, NoOptions) # {}]
    /\ UNCHANGED <<twin, inspector, delta, nodeMeta, events, coverage, invoked, plans, run, runs>>

\* ------------------------------------------------- running the tests

Frame == UNCHANGED <<twin, inspector, delta, nodeMeta, events, plans, query, runs>>

\* The caller calls the test of one path of a plan it holds.
PathTest(c) ==
    /\ run[c].pc = "idle"
    /\ runs < MaxRuns
    /\ \E p \in 1..Len(plans) : \E j \in 1..Len(plans[p].paths) :
          Becomes(c, StartPath([Machine(c) EXCEPT !.r = IdleRun], plans[p], j))
    /\ runs' = runs + 1
    /\ query' = NoQuery
    /\ UNCHANGED <<twin, inspector, delta, nodeMeta, events, plans>>

\* The caller calls the test of a plan it holds.
PlanTest(c) ==
    /\ run[c].pc = "idle"
    /\ runs < MaxRuns
    /\ \E p \in 1..Len(plans) :
          LET r0 == [IdleRun EXCEPT !.viaPlan = TRUE, !.plan = plans[p]] IN
          IF Len(plans[p].paths) = 0
          THEN Becomes(c, [Machine(c) EXCEPT
                             !.r = [r0 EXCEPT !.pc = "done",
                                              !.planOutcome = "resolved"]])
          ELSE Becomes(c, StartPath(
                   [Machine(c) EXCEPT !.r = [r0 EXCEPT !.planOutcome = "pending"]],
                   plans[p], 1))
    /\ runs' = runs + 1
    /\ query' = NoQuery
    /\ UNCHANGED <<twin, inspector, delta, nodeMeta, events, plans>>

\* An assertion that testState awaits resolves: the loop goes on.
AssertResolves(c) ==
    /\ run[c].pc \in {"stepTest", "finalTest"}
    /\ run[c].inner = "pending"
    /\ Becomes(c, testState(Machine(c), AssertedState(run[c]), run[c].pos + 1,
                            CurrentCall(run[c])))
    /\ Frame

\* An assertion that testState awaits rejects: testState rejects with it.
AssertRejects(c) ==
    /\ run[c].pc \in {"stepTest", "finalTest"}
    /\ run[c].inner = "pending"
    /\ \E e \in Rejections("test", MetaKeys(AssertedState(run[c]))[run[c].pos]) :
          Becomes(c, [Machine(c) EXCEPT
                        !.r.inner = "rejected", !.r.innerErr = e,
                        !.r.calls = Append(@, [CurrentCall(run[c])
                                                 EXCEPT !.ev = "end"])])
    /\ Frame

\* path.test goes on after await step.test(testContext).
StepTestReturns(c) ==
    /\ run[c].pc = "stepTest"
    /\ run[c].inner # "pending"
    /\ IF run[c].inner = "resolved"
       THEN Becomes(c, executeEvent(Machine(c)))
       ELSE Becomes(c, PathRejects(
                [Machine(c) EXCEPT
                    !.r.result.steps[StepNo(run[c])].stateError = run[c].innerErr],
                run[c].innerErr))
    /\ Frame

\* The executor that executeEvent awaits settles.
ExecutorResolves(c) ==
    /\ run[c].pc = "stepExec"
    /\ run[c].inner = "pending"
    /\ Becomes(c, [Machine(c) EXCEPT
                     !.r.inner = "resolved",
                     !.r.calls = Append(@, [CurrentCall(run[c]) EXCEPT !.ev = "end"])])
    /\ Frame

ExecutorRejects(c) ==
    /\ run[c].pc = "stepExec"
    /\ run[c].inner = "pending"
    /\ \E e \in Rejections("exec", StepNo(run[c])) :
          Becomes(c, [Machine(c) EXCEPT
                        !.r.inner = "rejected", !.r.innerErr = e,
                        !.r.calls = Append(@, [CurrentCall(run[c])
                                                 EXCEPT !.ev = "end"])])
    /\ Frame

\* path.test goes on after await step.exec(testContext).
StepExecReturns(c) ==
    /\ run[c].pc = "stepExec"
    /\ run[c].inner # "pending"
    /\ IF run[c].inner = "resolved"
       THEN Becomes(c, LoopHead(Machine(c)))
       ELSE Becomes(c, PathRejects(
                [Machine(c) EXCEPT
                    !.r.result.steps[StepNo(run[c])].eventError = run[c].innerErr],
                run[c].innerErr))
    /\ Frame

\* path.test goes on after await this.testState(testPlan.state, testContext).
FinalTestReturns(c) ==
    /\ run[c].pc = "finalTest"
    /\ run[c].inner # "pending"
    /\ IF run[c].inner = "resolved"
       THEN Becomes(c, PathReturns(Machine(c)))
       ELSE Becomes(c, PathRejects(
                [Machine(c) EXCEPT !.r.result.stateError = run[c].innerErr],
                run[c].innerErr))
    /\ Frame

\* plan.test goes on after await path.test(testContext).
PlanContinues(c) ==
    /\ run[c].pc = "done"
    /\ run[c].viaPlan
    /\ run[c].planOutcome = "pending"
    /\ LET after == PlanAfterPath(run[c]) IN
       IF after = "reject"
       THEN Becomes(c, [Machine(c) EXCEPT !.r.planOutcome = "rejected",
                                          !.r.planThrown = run[c].thrown])
       ELSE IF after = "next"
       THEN Becomes(c, StartPath(Machine(c), run[c].plan, run[c].pathIdx + 1))
       ELSE Becomes(c, [Machine(c) EXCEPT !.r.planOutcome = "resolved"])
    /\ Frame

\* The caller's own await of path.test or of plan.test returns or throws:
\* the caller is done with the plans it held and free to make its next
\* call (plans are values: a later query returns them again).
TestSettles(c) ==
    /\ run[c].pc = "done"
    /\ ~InFlight(run[c])
    /\ run' = [run EXCEPT ![c] = IdleRun]
    /\ plans' = << >>
    /\ UNCHANGED <<twin, inspector, delta, nodeMeta, events, coverage, invoked, query, runs>>

\* The caller awaits every call it makes: one flow.
Awaiting == {"c1"}

Next ==
    \/ GetShortestPathPlans
    \/ GetShortestPathPlansTo(ExecTargets)
    \/ GetSimplePathPlans
    \/ GetSimplePathPlansTo(ExecTargets)
    \/ GetPlanFromEvents(ExecEventSeqs, ExecIds)
    \/ GetCoverage
    \/ TestCoverage
    \/ \E c \in Awaiting : PathTest(c)
    \/ \E c \in Awaiting : PlanTest(c)
    \/ \E c \in Awaiting : AssertResolves(c)
    \/ \E c \in Awaiting : AssertRejects(c)
    \/ \E c \in Awaiting : StepTestReturns(c)
    \/ \E c \in Awaiting : ExecutorResolves(c)
    \/ \E c \in Awaiting : ExecutorRejects(c)
    \/ \E c \in Awaiting : StepExecReturns(c)
    \/ \E c \in Awaiting : FinalTestReturns(c)
    \/ \E c \in Awaiting : PlanContinues(c)
    \/ \E c \in Awaiting : TestSettles(c)

Spec == Init /\ [][Next]_vars

\* ------------------------------------------- the plan queries alone

\* The machines the plan queries are asked of: from a state an event leads
\* back to the initial state, nowhere, or one or two states on.
PlanDeltas ==
    {d \in [States -> [EventTypes -> States]] :
        \A s \in States, t \in EventTypes : d[s][t] \in {s, 1, s + 1, s + 2}}

PlanEvents ==
    { [t \in EventTypes |-> Function],
      [t \in EventTypes |-> IF t = "E" THEN RecordCases(TRUE, <<[data |-> 1], [data |-> 2]>>)
                            ELSE Missing],
      [t \in EventTypes |-> IF t = "E" THEN Missing ELSE Record(FALSE)] }

InitPlans ==
    /\ delta \in PlanDeltas
    /\ nodeMeta = AllTested
    /\ events \in PlanEvents
    /\ InitModel

\* One query of a fresh model.
NextPlans ==
    /\ query = NoQuery
    /\ \/ GetShortestPathPlans
       \/ GetShortestPathPlansTo(Targets)
       \/ GetSimplePathPlans
       \/ GetSimplePathPlansTo(Targets)

SpecPlans == InitPlans /\ [][NextPlans]_vars

\* ------------------------------------------- reachability, stated apart

SampledTypes == {getEventSamples(events)[k].type :
                    k \in 1..Len(getEventSamples(events))}

RECURSIVE ReachWithin(_)
ReachWithin(n) ==
    IF n = 0 THEN {initialState}
    ELSE ReachWithin(n - 1)
            \cup {delta[s][t] : s \in ReachWithin(n - 1), t \in SampledTypes}

Reachable == ReachWithin(NumStates)

Distance(s) ==
    CHOOSE n \in 0..NumStates :
        s \in ReachWithin(n) /\ \A m \in 0..(n - 1) : s \notin ReachWithin(m)

\* A path is a walk of the machine from the initial state to its state.
IsWalk(path) ==
    /\ path.weight = Len(path.steps)
    /\ IF path.steps = << >> THEN path.state = initialState
       ELSE /\ path.steps[1].state = initialState
            /\ \A k \in 1..Len(path.steps) :
                  Transition(path.steps[k].state, path.steps[k].event)
                    = (IF k < Len(path.steps) THEN path.steps[k + 1].state
                       ELSE path.state)

\* C10: getShortestPathPlans() returns exactly one plan per state that is
\* reachable from the initial state with the sampled events, and every path
\* of a plan is a walk to the plan's state of the fewest steps that reach it
\* (no steps for the initial state).
C10_OnePlanPerStateOfFewestSteps ==
    query.op = "getShortestPathPlans" =>
        /\ \A s \in Reachable :
              Cardinality({k \in 1..Len(plans) : plans[k].state = s}) = 1
        /\ \A k \in 1..Len(plans) :
              /\ plans[k].state \in Reachable
              /\ Len(plans[k].paths) >= 1
              /\ \A j \in 1..Len(plans[k].paths) :
                    LET path == plans[k].paths[j] IN
                    /\ path.state = plans[k].state
                    /\ IsWalk(path)
                    /\ path.weight = Distance(plans[k].state)

\* A model all of whose states are reachable, one of them not in one step.
C10_Witness ==
    /\ query.op = "getShortestPathPlans"
    /\ Len(plans) = NumStates
    /\ \E k \in 1..Len(plans) : plans[k].paths[1].weight >= 2
    /\ \E k \in 1..Len(plans) :
          plans[k].state = initialState /\ plans[k].paths[1].weight = 0

\* C9: getShortestPathPlansTo(target) returns, each once, exactly the
\* shortest-path plans whose state matches the target and whose weight is
\* the least weight of a matching plan, and nothing exactly when no
\* reachable state matches the target.
C9_MatchingPlansOfLeastWeight ==
    query.op = "getShortestPathPlansTo" =>
        LET all      == getShortestPathPlans(events)
            matching == {k \in 1..Len(all) : TargetMatches(query.target, all[k].state)}
            least    == {k \in matching :
                           \A m \in matching :
                               all[k].paths[1].weight <= all[m].paths[1].weight}
        IN /\ {plans[k] : k \in 1..Len(plans)} = {all[k] : k \in least}
           /\ Len(plans) = Cardinality(least)
           /\ \A i, j \in 1..Len(plans) :
                 plans[i].paths[1].weight = plans[j].paths[1].weight
           /\ (plans = << >>) <=>
                 ~\E s \in Reachable : TargetMatches(query.target, s)

\* Two matching plans of the same least weight are both returned, while a
\* third matching state is reachable (at that weight or a greater one).
C9_Witness ==
    /\ query.op = "getShortestPathPlansTo"
    /\ Len(plans) >= 2
    /\ Cardinality({s \in Reachable : TargetMatches(query.target, s)}) >= 2

\* ------------------------------------------- the order of a path's calls

\* The calls of a path's test of n steps, each with its end: test and exec
\* of every step in turn, then the assertion of the plan's state.
ExpectedCalls(n) ==
    [q \in 1..(4 * n + 2) |->
        IF q > 4 * n
        THEN Call("final", 0, IF q = 4 * n + 1 THEN "start" ELSE "end")
        ELSE Call(IF ((q - 1) % 4) < 2 THEN "test" ELSE "exec",
                  ((q - 1) \div 4) + 1,
                  IF (q - 1) % 2 = 0 THEN "start" ELSE "end")]

IsPrefix(a, b) == Len(a) <= Len(b) /\ \A q \in 1..Len(a) : a[q] = b[q]

Started(r) == r.pathIdx > 0

\* C1: in one run of a path's test the calls are test(s1), exec(s1), ...,
\* test(sn), exec(sn), the assertion of the plan's state, in this order, and
\* each starts after the one before it has settled; a run that passes made
\* them all.
C1_CallsInOrderWithoutOverlap ==
    \A c \in Callers :
        Started(run[c]) =>
            /\ IsPrefix(run[c].calls, ExpectedCalls(Len(Steps(run[c]))))
            /\ run[c].outcome = "resolved" =>
                  run[c].calls = ExpectedCalls(Len(Steps(run[c])))
            /\ run[c].inner = "pending" =>
                  run[c].calls[Len(run[c].calls)].ev = "start"

\* A path of two steps has passed.
C1_Witness ==
    \E c \in Callers :
        /\ Started(run[c])
        /\ run[c].outcome = "resolved"
        /\ Len(Steps(run[c])) >= 2

\* ------------------------------------------------ the first failure

\* The call that failed, when the path's test was rejected.
FailedCall(r) == r.calls[Len(r.calls)]

\* C2: a path's test that fails in a step stops at the first failure: the
\* failing call is the last one made (after a failing assertion of step k the
\* executor of step k is not invoked), the test rejects with the error that
\* call rejected with, and no result is returned.
C2_AbortsAtFirstFailureWithItsError ==
    \A c \in Callers :
        (/\ Started(run[c])
         /\ run[c].outcome = "rejected"
         /\ FailedCall(run[c]).fn \in {"test", "exec"}) =>
            /\ run[c].inner = "rejected"
            /\ IsPrefix(run[c].calls, ExpectedCalls(Len(Steps(run[c]))))
            /\ FailedCall(run[c]).ev = "end"
            /\ FailedCall(run[c]).fn = "test" =>
                  \A q \in 1..Len(run[c].executed) :
                      run[c].executed[q] # FailedCall(run[c]).step
            /\ run[c].thrown = run[c].innerErr

\* ------------------------------------------------------ a plan's test

\* C3: a plan's test runs its paths' tests in list order, one starting after
\* the one before it has resolved; when a path's test rejects, no later
\* path is started and the plan's test rejects with that error.
C3_PathsInTurnAndRejectionPropagated ==
    \A c \in Callers :
        run[c].viaPlan =>
            LET log == run[c].planLog IN
            /\ \A q \in 1..Len(log) :
                  /\ log[q].path = (q + 1) \div 2
                  /\ (q % 2 = 1) => log[q].ev = "start"
                  /\ (q % 2 = 0) => log[q].ev \in {"resolved", "rejected"}
                  /\ (q % 2 = 0 /\ q < Len(log)) => log[q].ev = "resolved"
            /\ Len(log) <= 2 * Len(run[c].plan.paths)
            /\ run[c].outcome = "rejected" => run[c].planOutcome # "resolved"
            /\ run[c].planOutcome = "rejected" =>
                  /\ log[Len(log)].ev = "rejected"
                  /\ run[c].planThrown = run[c].thrown
                  /\ run[c].outcome = "rejected"
            /\ run[c].planOutcome = "resolved" =>
                  /\ Len(log) = 2 * Len(run[c].plan.paths)
                  /\ \A q \in 1..Len(log) : log[q].ev # "rejected"

\* The first of a plan's two paths was rejected, and so was the plan's test.
C3_Witness ==
    \E c \in Callers :
        /\ run[c].viaPlan
        /\ run[c].planOutcome = "rejected"
        /\ run[c].pathIdx = 1
        /\ Len(run[c].plan.paths) >= 2

\* ------------------------------------------------------------ coverage

Uncovered == {id \in NodeIds : CoverageGet(coverage, id) = 0}

\* C4: testCoverage() without options throws exactly when a state node the
\* machine declares has the count zero, and then lists those nodes and no
\* others.
C4_ThrowsForExactlyTheUncovered ==
    query.op = "testCoverage" =>
        /\ query.threw <=> Uncovered # {}
        /\ query.threw => query.missing = Uncovered

\* It throws after a test has covered some of the nodes, not all.
C4_Witness ==
    /\ query.op = "testCoverage"
    /\ query.threw
    /\ query.missing # NodeIds
    /\ runs >= 1

\* The nodes whose assertion a passing run of the path invokes.
TestedOnPath(r) ==
    {id \in NodeIds :
        /\ nodeMeta[id] = "test"
        /\ \/ \E k \in 1..Len(Steps(r)) : Matches(Steps(r)[k].state, id)
           \/ Matches(r.plan.state, id)}

\* C5: no operation lowers or removes a node's count, and when a run of a
\* path passes, the count of every tested node on the path that is not
\* skipped is greater than when the run began (also in a second run).
C5_CountsNeverDecrease ==
    [][ /\ \A id \in NodeIds :
              /\ CoverageGet(coverage', id) >= CoverageGet(coverage, id)
              /\ id \in DOMAIN coverage => id \in DOMAIN coverage'
        /\ \A c \in Callers :
              (run'[c].outcome = "resolved" /\ run[c].outcome # "resolved") =>
                  \A id \in TestedOnPath(run'[c]) :
                      CoverageGet(coverage', id) > run'[c].countsAtStart[id]
      ]_vars

\* A second run has passed over a node that was counted before.
C5_Witness ==
    \E c \in Callers :
        /\ Started(run[c])
        /\ run[c].outcome = "resolved"
        /\ runs = 2
        /\ \E id \in TestedOnPath(run[c]) :
              /\ run[c].countsAtStart[id] >= 1
              /\ coverage[id] > run[c].countsAtStart[id]

\* C6: the assertion of a node whose metadata is {test, skip: true} is never
\* invoked and the node gets no counter: its reported count stays zero.
C6_SkippedNodeNeverCounted ==
    \A id \in NodeIds :
        nodeMeta[id] = "skip" =>
            /\ invoked[id] = 0
            /\ id \notin DOMAIN coverage
            /\ getCoverage(coverage, NoOptions)[id] = 0

\* A path has passed with a skipped node active in a step's state and in
\* the plan's state.
C6_Witness ==
    \E c \in Callers :
        /\ Started(run[c])
        /\ run[c].outcome = "resolved"
        /\ \E id \in NodeIds :
              /\ nodeMeta[id] = "skip"
              /\ Matches(run[c].plan.state, id)
              /\ \E k \in 1..Len(Steps(run[c])) : Matches(Steps(run[c])[k].state, id)

\* How many keys of a state's metadata testState has got to: all of them,
\* or the position of the assertion that is pending or that rejected.
AllKeys(s) == Len(MetaKeys(s))

StepKeysDone(r, k) ==
    IF k < StepNo(r) THEN AllKeys(Steps(r)[k].state)
    ELSE IF r.pc = "stepTest" /\ r.inner # "resolved" THEN r.pos
    ELSE IF r.pc = "done" /\ r.result.steps[k].stateError # NoError THEN r.pos
    ELSE AllKeys(Steps(r)[k].state)

FinalKeysDone(r) ==
    IF r.pc = "finalTest"
    THEN (IF r.inner = "resolved" THEN AllKeys(r.plan.state) ELSE r.pos)
    ELSE IF r.pc = "done" /\ r.outcome = "resolved" THEN AllKeys(r.plan.state)
    ELSE IF r.pc = "done" /\ r.result.stateError # NoError THEN r.pos
    ELSE 0

\* Whether the assertion of node id is among the first p keys of state s.
AssertedIn(s, p, id) ==
    IF nodeMeta[id] = "test"
       /\ \E q \in 1..p : q <= AllKeys(s) /\ MetaKeys(s)[q] = id
    THEN 1 ELSE 0

RECURSIVE AssertedInSteps(_, _, _)
AssertedInSteps(r, k, id) ==
    IF k = 0 THEN 0
    ELSE AssertedIn(Steps(r)[k].state, StepKeysDone(r, k), id)
            + AssertedInSteps(r, k - 1, id)

\* The assertions of node id that the run has invoked, read off the path.
AssertedSoFar(r, id) ==
    AssertedInSteps(r, StepNo(r), id)
        + AssertedIn(r.plan.state, FinalKeysDone(r), id)

\* C7: a node's count always equals the number of invocations of its
\* assertion; within a run it has grown by one for every assertion invoked
\* so far, the one that is pending or that rejected included, and not for
\* the keys that follow an assertion that rejected.
C7_CountEqualsInvocations ==
    /\ \A id \in NodeIds : CoverageGet(coverage, id) = invoked[id]
    /\ \A c \in Awaiting :
          Started(run[c]) =>
              \A id \in NodeIds :
                  CoverageGet(coverage, id)
                      = run[c].countsAtStart[id] + AssertedSoFar(run[c], id)

\* The first of a state's two assertions rejected: it is counted, the
\* second is not.
C7_Witness ==
    \E c \in Awaiting :
        /\ Started(run[c])
        /\ run[c].outcome = "rejected"
        /\ run[c].result.stateError # NoError
        /\ run[c].pos = 1
        /\ LET keys == MetaKeys(run[c].plan.state) IN
           /\ Len(keys) = 2
           /\ nodeMeta[keys[2]] = "test"
           /\ coverage[keys[1]] = run[c].countsAtStart[keys[1]] + 1
           /\ CoverageGet(coverage, keys[2]) = run[c].countsAtStart[keys[2]]

\* ------------------------------------------------- missing executors

\* The step's event type has no entry in the event configuration, or an
\* entry that is a record without exec.
NoExecutorFor(step) ==
    \/ events[step.event.type].kind = "missing"
    \/ events[step.event.type].kind = "record" /\ ~events[step.event.type].exec

InitReplay ==
    /\ delta \in PlanDeltas
    /\ nodeMeta = AllTested
    /\ events = [t \in EventTypes |-> Function]
    /\ InitModel

NextReplay ==
    /\ query = NoQuery
    /\ GetPlanFromEvents(EventSeqs, NodeIds)

SpecReplay == InitReplay /\ [][NextReplay]_vars

\* The state n events of evs lead to from the initial state, stated apart.
RECURSIVE StateAfter(_, _)
StateAfter(evs, n) ==
    IF n = 0 THEN initialState
    ELSE delta[StateAfter(evs, n - 1)][evs[n].type]

\* C11: getPlanFromEvents(events, {target}) throws exactly when the state
\* the events lead to from the initial state does not match the target;
\* otherwise it returns one plan, of that state, with one path whose steps
\* carry the given events in order.  The outcome is determined by the
\* machine, the events and the target alone.
C11_PlanOfTheLiteralEvents ==
    query.op = "getPlanFromEvents" =>
        LET evs     == query.evs
            reached == StateAfter(evs, Len(evs))
        IN /\ query.threw <=> ~Matches(reached, query.target.value)
           /\ ~query.threw =>
                 /\ Len(plans) = 1
                 /\ plans[1].state = reached
                 /\ Len(plans[1].paths) = 1
                 /\ plans[1].paths[1].state = reached
                 /\ Len(plans[1].paths[1].steps) = Len(evs)
                 /\ \A k \in 1..Len(evs) :
                       /\ plans[1].paths[1].steps[k].event = evs[k]
                       /\ plans[1].paths[1].steps[k].state = StateAfter(evs, k - 1)

\* A plan was returned for two events of different types that lead away
\* from the initial state.
C11_Witness ==
    /\ query.op = "getPlanFromEvents"
    /\ ~query.threw
    /\ Len(query.evs) = 2
    /\ query.evs[1].type # query.evs[2].type
    /\ Len(plans) = 1
    /\ plans[1].state # initialState

\* ------------------------------------------------ the failure's trace

Reds == {"red", "redBright"}
Greens == {"green", "greenBright"}

\* The lines a trace must have for k recorded steps: State and Event of
\* each step in path order, then the target state.
TraceShape(r, t) ==
    /\ Len(t) = 2 * StepNo(r) + 1
    /\ \A k \in 1..StepNo(r) :
          /\ t[2 * k - 1].line = "State"
          /\ t[2 * k - 1].state = Steps(r)[k].state
          /\ t[2 * k].line = "Event"
          /\ t[2 * k].event = Steps(r)[k].event
    /\ t[Len(t)].line = "State"
    /\ t[Len(t)].state = Path(r).state

\* C12: when a path's test aborts with an Error, the lines of the trace
\* appended to its message are green before the first failing line, red at
\* it and gray after it, and exactly one line is red.
C12_GreenThenOneRedThenGray ==
    \A c \in Callers :
        (/\ Started(run[c])
         /\ run[c].outcome = "rejected"
         /\ run[c].innerErr.type = "Error") =>
            LET t == run[c].trace
                f == IF FailedCall(run[c]).fn = "test"
                         THEN 2 * FailedCall(run[c]).step - 1
                     ELSE IF FailedCall(run[c]).fn = "exec"
                         THEN 2 * FailedCall(run[c]).step
                     ELSE 2 * StepNo(run[c]) + 1
            IN /\ Len(t) = 2 * StepNo(run[c]) + 1
               /\ f \in 1..Len(t)
               /\ \A q \in 1..Len(t) :
                     /\ q < f => t[q].colour \in Greens
                     /\ q = f => t[q].colour \in Reds
                     /\ q > f => t[q].colour = "gray"
               /\ Cardinality({q \in 1..Len(t) : t[q].colour \in Reds}) = 1

\* The assertion of the second step rejected with an Error: two green
\* lines, a red one, and two gray ones.
C12_Witness ==
    \E c \in Callers :
        /\ Started(run[c])
        /\ run[c].outcome = "rejected"
        /\ run[c].innerErr.type = "Error"
        /\ FailedCall(run[c]).fn = "test"
        /\ FailedCall(run[c]).step = 2
        /\ Len(run[c].trace) = 5
        /\ run[c].trace[5].colour = "gray"

\* C13: every failure of a path's test reaches the caller with a message
\* that carries the trace: a State and an Event line for each step started,
\* in path order, then the line of the plan's target state.
C13_EveryFailureCarriesThePath ==
    \A c \in Callers :
        (Started(run[c]) /\ run[c].outcome = "rejected") =>
            TraceShape(run[c], run[c].trace)

\* --------------------------------------------------- two instances

\* The event maps withEvents is called with.
EventMaps ==
    { [t \in EventTypes |-> Function],
      [t \in EventTypes |-> IF t = "E" THEN Record(TRUE) ELSE Missing] }

\* The caller calls withEvents(eventMap) on the instance it works with and
\* keeps the instance returned.
WithEvents ==
    /\ Quiescent
    /\ ~twin.made
    /\ \E eventMap \in EventMaps :
          twin' = [NoTwin EXCEPT !.made = TRUE, !.arg = eventMap,
                                 !.events = withEvents(eventMap).events,
                                 !.coverage = withEvents(eventMap).coverage]
    /\ UNCHANGED <<inspector, delta, nodeMeta, events, coverage, invoked,
                   plans, query, run, runs>>

\* The caller turns to its other instance, and to the plans it holds of it.
Turn ==
    /\ Quiescent
    /\ twin.made
    /\ events' = twin.events
    /\ coverage' = twin.coverage
    /\ invoked' = twin.invoked
    /\ plans' = twin.plans
    /\ twin' = [twin EXCEPT !.original = ~@, !.events = events,
                            !.coverage = coverage, !.invoked = invoked,
                            !.plans = plans]
    /\ query' = NoQuery
    /\ UNCHANGED <<inspector, delta, nodeMeta, run, runs>>

InitInstances ==
    /\ delta = Round
    /\ nodeMeta = AllTested
    /\ events = [t \in EventTypes |-> IF t = "E" THEN Function ELSE Record(FALSE)]
    /\ InitModel

NextInstances ==
    \/ WithEvents
    \/ Turn
    \/ GetShortestPathPlans
    \/ \E c \in Awaiting : PathTest(c)
    \/ \E c \in Awaiting : AssertResolves(c)
    \/ \E c \in Awaiting : AssertRejects(c)
    \/ \E c \in Awaiting : StepTestReturns(c)
    \/ \E c \in Awaiting : ExecutorResolves(c)
    \/ \E c \in Awaiting : ExecutorRejects(c)
    \/ \E c \in Awaiting : StepExecReturns(c)
    \/ \E c \in Awaiting : FinalTestReturns(c)
    \/ \E c \in Awaiting : TestSettles(c)

SpecInstances == InitInstances /\ [][NextInstances]_vars

\* The two instances' fields, whichever the caller works with.
OriginalEvents == IF twin.original THEN twin.events ELSE events
OriginalCoverage == IF twin.original THEN twin.coverage ELSE coverage
DerivedEvents == IF twin.original THEN events ELSE twin.events
DerivedCoverage == IF twin.original THEN coverage ELSE twin.coverage
Working == IF twin.original THEN "derived" ELSE "original"

\* C14: withEvents(eventMap) returns a new instance on the same machine
\* whose event configuration is eventMap and whose coverage is empty, and
\* leaves the instance it is called on as it was; afterwards a step changes
\* the coverage of the instance the caller works with at most, and the
\* original's event configuration never changes.
C14_WithEventsMakesAnIndependentInstance ==
    [][ /\ OriginalEvents' = OriginalEvents
        /\ delta' = delta
        /\ (~twin.made /\ twin'.made) =>
              /\ OriginalCoverage' = OriginalCoverage
              /\ DerivedEvents' = twin'.arg
              /\ DerivedCoverage' = [id \in {} |-> 0]
        /\ (twin.made /\ Working = "original") =>
              /\ DerivedCoverage' = DerivedCoverage
              /\ DerivedEvents' = DerivedEvents
        /\ (twin.made /\ Working = "derived") =>
              OriginalCoverage' = OriginalCoverage
      ]_vars

\* Both instances have run an assertion, the derived one after the original.
C14_Witness ==
    /\ twin.made
    /\ Working = "derived"
    /\ \E id \in DOMAIN OriginalCoverage : OriginalCoverage[id] > 0
    /\ \E id \in DOMAIN DerivedCoverage : DerivedCoverage[id] > 0
    /\ DerivedCoverage # OriginalCoverage

\* ------------------------------------------- coverage under a filter

\* C15: getCoverage(options) with a filter reports exactly the declared
\* state nodes the filter keeps, each with its accumulated count, zero when
\* its assertion never ran; a node the filter rejects is not reported.
C15_FilteredReportHasTheKeptNodesOnly ==
    (query.op = "getCoverage" /\ query.options.filter) =>
        /\ DOMAIN query.report = getStateNodes \cap query.options.keep
        /\ \A id \in DOMAIN query.report :
              query.report[id] = CoverageGet(coverage, id)

\* ------------------------------------------------ sampling the events

\* Case payloads: a data field alone, or with a type field of their own.
Payloads ==
    {[data |-> 1], [data |-> 2], [type |-> "F", data |-> 3]}
CaseLists == UNION {[1..n -> Payloads] : n \in 0..MaxCases}

\* What a key of the event configuration may hold, or the key is absent.
EventConfigs ==
    {Missing, Function, Record(TRUE), Record(FALSE)}
        \cup {RecordCases(TRUE, cases) : cases \in CaseLists}

InitSamples ==
    /\ delta = Toggle
    /\ nodeMeta = AllTested
    /\ events \in [EventTypes -> EventConfigs]
    /\ InitModel

\* The caller samples the events of its configuration.
GetEventSamples ==
    /\ query = NoQuery
    /\ query' = [NoQuery EXCEPT !.op = "getEventSamples",
                                !.samples = getEventSamples(events)]
    /\ UNCHANGED <<twin, inspector, delta, nodeMeta, events, coverage, invoked,
                   plans, run, runs>>

NextSamples == GetEventSamples

SpecSamples == InitSamples /\ [][NextSamples]_vars

\* The number of samples of a key, and of the keys before the j-th key of
\* the list of event types, stated apart from the sampling.
SamplesOf(t) ==
    IF events[t].kind = "missing" THEN 0
    ELSE IF events[t].kind = "record" /\ events[t].hasCases
         THEN Len(events[t].cases)
         ELSE 1

RECURSIVE SamplesBefore(_)
SamplesBefore(j) ==
    IF j = 1 THEN 0
    ELSE SamplesBefore(j - 1) + SamplesOf(EventTypeList[j - 1])

\* The type of a case's sample: its key's, or with ownTypeKept the type
\* field of the payload when it has one.
TypeOfCase(t, payload, ownTypeKept) ==
    IF ownTypeKept /\ "type" \in DOMAIN payload THEN payload.type ELSE t

\* The samples are, key by key in key order, one per bare function or
\* record without cases and one per case of a record with cases.
SamplesKeyByKey(ownTypeKept) ==
    LET samples == query.samples IN
    /\ Len(samples) = SamplesBefore(Len(EventTypeList) + 1)
    /\ \A j \in 1..Len(EventTypeList) :
          LET t == EventTypeList[j] IN
          \A i \in 1..SamplesOf(t) :
              LET sample == samples[SamplesBefore(j) + i] IN
              IF events[t].kind = "record" /\ events[t].hasCases
              THEN /\ sample.data = events[t].cases[i].data
                   /\ sample.type = TypeOfCase(t, events[t].cases[i],
                                                  ownTypeKept)
              ELSE sample = [type |-> t, data |-> 0]

\* C16, as stated: every sample of a case carries type: key.
C16_EverySampleHasTheTypeOfItsKey ==
    query.op = "getEventSamples" => SamplesKeyByKey(FALSE)

\* C16, amended: getEventSamples emits, in key order, one sample {type: key}
\* for a bare function or a record without cases, and for a record with
\* cases one sample per case (none for an empty list) that has the case's
\* fields and type: key unless the case has a type field of its own, which
\* then is the sample's type; an empty configuration yields no sample.
C16_SamplesInKeyOrderCaseFieldsLast ==
    query.op = "getEventSamples" => SamplesKeyByKey(TRUE)

\* One key has two cases, one of them with a type of its own, and the other
\* key is a bare function.
C16_Witness ==
    /\ query.op = "getEventSamples"
    /\ events["E"].hasCases
    /\ Len(events["E"].cases) = 2
    /\ "type" \in DOMAIN events["E"].cases[1]
    /\ ~("type" \in DOMAIN events["E"].cases[2])
    /\ events["F"].kind = "function"
    /\ Len(query.samples) = 3

\* ------------------------------------------- who writes the counters

\* The operations that read: plan queries and coverage reports.
Reads ==
    {"getShortestPathPlans", "getShortestPathPlansTo", "getSimplePathPlans",
     "getSimplePathPlansTo", "getPlanFromEvents", "getCoverage", "testCoverage"}

\* C17: the plan queries, getCoverage, testCoverage and the execution of a
\* step's event leave the coverage counters as they are; a step that
\* changes them is testState counting one assertion it is about to invoke,
\* run from a step's test or from the terminal assertion.
C17_OnlyTestStateWritesCoverage ==
    [][ /\ (query'.op \in Reads) => coverage' = coverage
        /\ (\E c \in Callers : run'[c].pc = "stepExec") => coverage' = coverage
        /\ coverage' # coverage =>
              \E c \in Callers :
                 /\ run'[c].pc \in {"stepTest", "finalTest"}
                 /\ run'[c].inner = "pending"
                 /\ run'[c].pos > 0
                 /\ LET id == MetaKeys(AssertedState(run'[c]))[run'[c].pos] IN
                    /\ CoverageGet(coverage', id) = CoverageGet(coverage, id) + 1
                    /\ \A other \in NodeIds \ {id} :
                          CoverageGet(coverage', other) = CoverageGet(coverage, other)
      ]_vars

\* A plan was made of literal events on a model that has counted assertions.
C17_Witness ==
    /\ query.op = "getPlanFromEvents"
    /\ ~query.threw
    /\ \E id \in DOMAIN coverage : coverage[id] > 0

\* ------------------------------------------------ the path's result

\* The error fields of a result that are set: by step and kind.
ErrorsSet(r) ==
    {<<k, "state">> : k \in {q \in 1..StepNo(r) :
                                r.result.steps[q].stateError # NoError}}
      \cup {<<k, "event">> : k \in {q \in 1..StepNo(r) :
                                r.result.steps[q].eventError # NoError}}
      \cup (IF r.result.stateError # NoError THEN {<<0, "state">>} ELSE {})

\* C18: while a path's test runs and when it has settled, the steps recorded
\* in its result are the first steps of the path, each recorded before its
\* assertion starts; at most one error field is set, in the step recorded
\* last or in the terminal entry; a test that returns has recorded every
\* step of the path and has set no error field.
C18_ResultIsAPrefixWithAtMostOneError ==
    \A c \in Callers :
        Started(run[c]) =>
            LET r == run[c] IN
            /\ StepNo(r) <= Len(Steps(r))
            /\ \A q \in 1..StepNo(r) : r.result.steps[q].step = Steps(r)[q]
            /\ \A q \in 1..Len(r.calls) :
                  r.calls[q].fn \in {"test", "exec"} => r.calls[q].step <= StepNo(r)
            /\ Cardinality({q \in 1..Len(r.calls) :
                              r.calls[q].fn = "test" /\ r.calls[q].ev = "start"})
                  = StepNo(r)
            /\ Cardinality(ErrorsSet(r)) <= 1
            /\ \A e \in ErrorsSet(r) : e[1] \in {0, StepNo(r)}
            /\ ErrorsSet(r) # {} => r.outcome = "rejected"
            /\ r.outcome = "resolved" =>
                  /\ StepNo(r) = Len(Steps(r))
                  /\ ErrorsSet(r) = {}

\* A two-step path failed in the executor of its second step: two steps are
\* recorded and the one error field set is the event error of the second.
C18_Witness ==
    \E c \in Callers :
        /\ Started(run[c])
        /\ run[c].outcome = "rejected"
        /\ StepNo(run[c]) = 2
        /\ ErrorsSet(run[c]) = {<<2, "event">>}

\* ------------------------------------------------ two tests at once

\* A caller starts a test for each of its two flows without awaiting the
\* first: the flows take their steps in any order, and neither is awaited
\* before both have settled.
InitConcurrent ==
    /\ delta \in ExecDeltas
    /\ nodeMeta = AllTested
    /\ events = [t \in EventTypes |-> IF t = "E" THEN Function ELSE Record(FALSE)]
    /\ InitModel

NextConcurrent ==
    \/ GetShortestPathPlans
    \/ \E c \in Callers : PathTest(c)
    \/ \E c \in Callers : PlanTest(c)
    \/ \E c \in Callers : AssertResolves(c)
    \/ \E c \in Callers : AssertRejects(c)
    \/ \E c \in Callers : StepTestReturns(c)
    \/ \E c \in Callers : ExecutorResolves(c)
    \/ \E c \in Callers : ExecutorRejects(c)
    \/ \E c \in Callers : StepExecReturns(c)
    \/ \E c \in Callers : FinalTestReturns(c)
    \/ \E c \in Callers : PlanContinues(c)

SpecConcurrent == InitConcurrent /\ [][NextConcurrent]_vars

\* The assertions of node id that a path invokes when its test passes, and
\* those invoked by the first j paths of a plan, read off the paths.
RECURSIVE AssertedOnSteps(_, _, _)
AssertedOnSteps(steps, k, id) ==
    IF k = 0 THEN 0
    ELSE AssertedIn(steps[k].state, AllKeys(steps[k].state), id)
            + AssertedOnSteps(steps, k - 1, id)

AssertedOnPath(path, id) ==
    AssertedOnSteps(path.steps, Len(path.steps), id)
        + AssertedIn(path.state, AllKeys(path.state), id)

RECURSIVE AssertedOnPaths(_, _, _)
AssertedOnPaths(paths, j, id) ==
    IF j = 0 THEN 0
    ELSE AssertedOnPath(paths[j], id) + AssertedOnPaths(paths, j - 1, id)

\* The assertions of node id a flow has invoked: those of the paths its
\* plan's test has been through, and those of the path it is in.
AssertedByFlow(r, id) ==
    IF ~Started(r) THEN 0
    ELSE AssertedSoFar(r, id)
            + (IF r.viaPlan THEN AssertedOnPaths(r.plan.paths, r.pathIdx - 1, id)
               ELSE 0)

\* C19: when two tests of one model run interleaved, no count is lost: at
\* every point, and so when both have settled, the count of every state
\* node is the number of its assertions the two flows have invoked.
C19_NoCountLostWhenInterleaved ==
    \A id \in NodeIds :
        CoverageGet(coverage, id)
            = AssertedByFlow(run["c1"], id) + AssertedByFlow(run["c2"], id)

\* Both tests are under way, each suspended at an await, and a node that
\* both have asserted has the count of both.
C19_Witness ==
    /\ InFlight(run["c1"])
    /\ InFlight(run["c2"])
    /\ run["c1"].inner = "pending"
    /\ run["c2"].inner = "pending"
    /\ \E id \in NodeIds :
          /\ AssertedByFlow(run["c1"], id) > 0
          /\ AssertedByFlow(run["c2"], id) > 0
          /\ CoverageGet(coverage, id) >= 2

\* ------------------------------------------------------ the inspector

\* inspect() has been called with a target window.  inspector.posted counts
\* the events handed to postMessage, which are numbered in that order;
\* inspector.received is what targetWindow.postMessage was called with, in
\* the order of the calls, which is the order the window gets them in;
\* inspector.timers counts the flushes set with setTimeout and not run yet;
\* inspector.postedBefore is the number of events posted before the first
\* 'xstate.inspecting' message arrived.
InitInspect ==
    /\ delta = Toggle
    /\ nodeMeta = AllTested
    /\ events = [t \in EventTypes |-> Function]
    /\ InitModel

TestModelUnchanged ==
    UNCHANGED <<delta, nodeMeta, events, coverage, invoked, plans, query, run,
                runs, twin>>

\* postMessage(event): queue the event while deferred, else send it.
postMessage(i, event) ==
    IF i.isDeferred
    THEN [i EXCEPT !.deferredEvents = Append(@, event)]
    ELSE [i EXCEPT !.received = Append(@, event)]

\* A service is registered, or a registered service changes state: the
\* onRegister callback or the service's subscriber posts an event.
PostEvent ==
    /\ inspector.posted < MaxPosted
    /\ LET n     == inspector.posted + 1
           event == [type |-> IF n = 1 THEN "service.register"
                              ELSE "service.state",
                     n    |-> n]
       IN inspector' = postMessage([inspector EXCEPT !.posted = n], event)
    /\ TestModelUnchanged

\* The window's message listener gets an 'xstate.inspecting' message.
InspectingArrives ==
    /\ inspector.inspecting < MaxInspecting
    /\ inspector' = [inspector EXCEPT
                        !.isDeferred = FALSE,
                        !.timers = @ + 1,
                        !.inspecting = @ + 1,
                        !.postedBefore = IF inspector.inspecting = 0
                                         THEN inspector.posted ELSE @]
    /\ TestModelUnchanged

\* A flush set by the listener runs, a second after it was set: it sends
\* the queued events from the first on.
FlushDeferred ==
    /\ inspector.timers > 0
    /\ inspector' = [inspector EXCEPT
                        !.timers = @ - 1,
                        !.received = @ \o inspector.deferredEvents,
                        !.deferredEvents = << >>]
    /\ TestModelUnchanged

NextInspect ==
    \/ PostEvent
    \/ InspectingArrives
    \/ FlushDeferred

SpecInspect == InitInspect /\ [][NextInspect]_vars

\* C20: the target window gets the events in the order they were posted
\* in: the events posted before the 'xstate.inspecting' message arrived
\* come first, in their order, and before every event posted after it.
C20_ReceivedInPostingOrder ==
    \A p, q \in 1..Len(inspector.received) :
        p < q => inspector.received[p].n < inspector.received[q].n

====
